---- MODULE Spec2Model ----
(***************************************************************************)
(* Model of the calendar booking agent: the dialogue pipeline of           *)
(* backend/agent.py (run_agent and the three graph nodes), the session     *)
(* store and endpoints of backend/main.py, and the free-slot planner of    *)
(* backend/calendar_utils.py.                                              *)
(*                                                                         *)
(* Python values: None is the string "None"; the booleans of the           *)
(* tri-state field availability are the strings "True" and "False";        *)
(* a clock time is the string "HH:MM" and a date the string "YYYY-MM-DD";  *)
(* a datetime of one day is its minute of the day (0..1439, and beyond     *)
(* for the next day).  A list is a sequence; attendees = None is <<>>      *)
(* (the code never stores an empty list there, and tests it only for       *)
(* truthiness).                                                            *)
(*                                                                         *)
(* Every endpoint of main.py is an async function that never awaits, so    *)
(* a request runs to its end before the event loop starts the next one:    *)
(* one request is in flight at a time, and pc is its position.             *)
(***************************************************************************)
EXTENDS Integers, Sequences, FiniteSets, TLC

VARIABLES
    sessions,   \* main.py:24   session id -> stored slot state
    pc,         \* position of the request in flight
    req,        \* the request in flight: endpoint and session id
    state,      \* agent.py     the dict threaded through the graph nodes
    turn,       \* what happened during the turn in flight (history variable)
    turns,      \* number of turns started so far
    pl_pc,      \* calendar_utils.py:68  position inside suggest_free_slots
    pl_busy,    \* calendar_utils.py:82  busy_times as the backend returned them
    pl_intervals,   \* calendar_utils.py:84-86
    pl_current,     \* calendar_utils.py:88
    pl_suggestions, \* calendar_utils.py:71
    tasks       \* main.py      the requests the server has accepted, by task

vars == <<sessions, pc, req, state, turn, turns,
          pl_pc, pl_busy, pl_intervals, pl_current, pl_suggestions, tasks>>

pipeVars == <<sessions, pc, req, state, turn, turns>>
plVars == <<pl_pc, pl_busy, pl_intervals, pl_current, pl_suggestions>>

(***************************************************************************)
(* Bounds of the model.                                                    *)
(***************************************************************************)
MaxTurns == 2
MaxBusy == 2

None == "None"

SessionIds == {"s1", "s2"}
DefaultCalendar == "aryanrai97861@gmail.com"
OtherCalendar == "team@example.com"

(***************************************************************************)
(* Clock times and dates: formatting and parsing.                          *)
(***************************************************************************)
Digit == <<"0", "1", "2", "3", "4", "5", "6", "7", "8", "9">>

TwoDigits(n) == Digit[(n \div 10) + 1] \o Digit[(n % 10) + 1]

\* the clock times of the model: every half hour of a day
GridMinutes == {30 * k : k \in 0..47}

\* datetime.strftime("%H:%M"): the clock time of a datetime, the day dropped
strftime_HM(m) == TwoDigits((m % 1440) \div 60) \o ":" \o TwoDigits(m % 60)

\* datetime.strptime(s, "%H:%M"): minute of the day, or -1 for ValueError.
\* strptime also accepts an hour without its leading zero.
ClockStrings == [m \in GridMinutes |-> strftime_HM(m)]

strptime_HM(s) ==
    IF \E m \in GridMinutes : ClockStrings[m] = s
    THEN CHOOSE m \in GridMinutes : ClockStrings[m] = s
    ELSE IF s = "9:30" THEN 570
    ELSE -1

DaysInMonth(y, m) ==
    IF m = 2 THEN (IF y % 4 = 0 /\ (y % 100 # 0 \/ y % 400 = 0) THEN 29 ELSE 28)
    ELSE IF m \in {4, 6, 9, 11} THEN 30 ELSE 31

\* the dates of the model are those of the year 2024
DateStr(m, d) == "2024" \o "-" \o TwoDigits(m) \o "-" \o TwoDigits(d)

\* datetime.strptime(s, "%Y-%m-%d") succeeds exactly on the calendar dates
CalendarDates == {DateStr(md[1], md[2]) :
                    md \in {x \in (1..12) \X (1..31) : x[2] <= DaysInMonth(2024, x[1])}}

strptime_Ymd_ok(s) == s \in CalendarDates

(***************************************************************************)
(* calendar_utils.py: suggest_free_slots.                                  *)
(* A busy interval is <<start, end>> in minutes of the day.                *)
(***************************************************************************)
slot_duration_minutes == 60
window_start_hour == 9
window_end_hour == 18
max_suggestions == 3

day_start == window_start_hour * 60
day_end == window_end_hour * 60

\* tuple order of Python: by start, then by end
IntervalLess(a, b) == a[1] < b[1] \/ (a[1] = b[1] /\ a[2] < b[2])

RECURSIVE InsertSorted(_, _)
InsertSorted(x, s) ==
    IF s = <<>> THEN <<x>>
    ELSE IF IntervalLess(x, Head(s)) THEN <<x>> \o s
    ELSE <<Head(s)>> \o InsertSorted(x, Tail(s))

\* intervals.sort()
RECURSIVE SortIntervals(_)
SortIntervals(s) ==
    IF s = <<>> THEN <<>> ELSE InsertSorted(Head(s), SortIntervals(Tail(s)))

\* line 94 testing only whether the slot starts inside the busy interval
SlotOverlapsStartOnly(current, b) == b[1] <= current /\ current < b[2]

\* the test of line 94 for the candidate slot starting at current
SlotOverlaps(current, b) ==
    current < b[2] /\ current + slot_duration_minutes > b[1]

\* index of the interval at which the for loop breaks, 0 when it runs through
FirstOverlap(current, intervals) ==
    IF \E i \in 1..Len(intervals) : SlotOverlaps(current, intervals[i])
    THEN CHOOSE i \in 1..Len(intervals) :
            /\ SlotOverlaps(current, intervals[i])
            /\ \A j \in 1..(i - 1) : ~SlotOverlaps(current, intervals[j])
    ELSE 0

\* line 89 with a slot that must end before the window does
SlotLoopGuardStrict(current, suggestions) ==
    /\ current + slot_duration_minutes < day_end
    /\ Len(suggestions) < max_suggestions

\* the while condition of line 89
SlotLoopGuard(current, suggestions) ==
    /\ current + slot_duration_minutes <= day_end
    /\ Len(suggestions) < max_suggestions

\* lines 90-100 with the cursor moved half a slot past an accepted slot
SlotLoopBodyHalfStep(current, suggestions, intervals) ==
    LET i == FirstOverlap(current, intervals) IN
    IF i # 0
    THEN [current |-> intervals[i][2], suggestions |-> suggestions]
    ELSE [current |-> current + (slot_duration_minutes \div 2),
          suggestions |-> Append(suggestions, current)]

\* one iteration of the while loop, lines 90-100
SlotLoopBody(current, suggestions, intervals) ==
    LET i == FirstOverlap(current, intervals) IN
    IF i # 0
    THEN [current |-> intervals[i][2], suggestions |-> suggestions]
    ELSE [current |-> current + slot_duration_minutes,
          suggestions |-> Append(suggestions, current)]

RECURSIVE SlotLoop(_, _, _)
SlotLoop(current, suggestions, intervals) ==
    IF SlotLoopGuard(current, suggestions)
    THEN LET n == SlotLoopBody(current, suggestions, intervals)
         IN SlotLoop(n.current, n.suggestions, intervals)
    ELSE suggestions

\* the slots returned for the busy_times the backend reported
suggest_free_slots(busy_times) ==
    SlotLoop(day_start, <<>>, SortIntervals(busy_times))

(***************************************************************************)
(* The calendar backend.  A calendar is the list of its busy intervals     *)
(* of the day, in the order the backend reports them; the backend is       *)
(* external, so every query sees a calendar chosen afresh.                 *)
(***************************************************************************)
Calendars ==
    { <<>>,
      << <<600, 660>> >>,
      << <<1380, 1440>>, <<540, 1080>> >> }

\* service.freebusy().query: the busy intervals that meet [timeMin, timeMax)
freebusy(cal, timeMin, timeMax) ==
    SelectSeq(cal, LAMBDA b : b[1] < timeMax /\ b[2] > timeMin)

\* calendar_utils.py:21-30
check_availability(cal, start, end) == Len(freebusy(cal, start, end)) = 0


(***************************************************************************)
(* Text.  A message or a response is a sequence of words; a response is    *)
(* its kind followed by the clock times it lists.                          *)
(***************************************************************************)
Messages == { <<"book", "tomorrow", "14:00">> }

Absent == "<absent>"

\* what gemini_conversational_reply can return: it raises (no key, provider
\* unreachable, text that is not JSON) or returns the decoded dict
\* The decoded dicts of the model, as <<intent, date, time, summary, email>>:
\* a booking request with every combination of slots that matters to the
\* nodes, whole-day queries, and turns that only change the subject.
ProviderSamples ==
    { <<"book", None, None, None, None>>,
      <<"book", "2024-07-01", "10:00", "Dentist", "a@b.com">>,
      <<"book", "2024-07-01", "10:00", None, None>>,
      <<"book", None, "23:30", None, None>>,
      <<"book", "2024-02-30", None, None, None>>,
      <<"book", None, None, None, "a@b.com">>,
      <<"check", None, None, None, None>>,
      <<"check", "2024-07-01", None, None, None>>,
      <<"check", "2024-02-30", None, None, None>>,
      <<"cancel", None, "23:30", None, None>>,
      <<Absent, None, None, None, None>>,
      <<"show_meetings", None, None, None, None>> }

ProviderResults ==
    { [ok |-> TRUE, reply |-> "llm_reply", intent |-> f[1], date |-> f[2],
       time |-> f[3], summary |-> f[4], email |-> f[5]] : f \in ProviderSamples }

ProviderFailure ==
    [ok |-> FALSE, reply |-> Absent, intent |-> Absent, date |-> None,
     time |-> None, summary |-> None, email |-> None]

ProviderOutcomes == ProviderResults \cup {ProviderFailure}

\* Python truthiness of an optional string
Truthy(x) == x \notin {None, ""}

\* dict.get(key, default) on the provider's dict
GetOr(x, default) == IF x = Absent THEN default ELSE x

ListingIntents ==
    {"show_meetings", "show_appointments", "list_meetings", "list_appointments"}

(***************************************************************************)
(* agent.py:113-158: fallback_extraction.  The message is its lowercase    *)
(* words; a keyword is found when it is one of them.  The clock read by    *)
(* datetime.now() is the day before 2024-07-01.                            *)
(***************************************************************************)
BookWords == {"book", "schedule", "reserve", "arrange"}
CheckWords == {"free", "available", "busy", "slots", "check"}
CancelWords == {"cancel", "delete", "remove"}

Words(message) == {message[i] : i \in 1..Len(message)}

\* lines 127-149 on a word of the form H:MM: the first one found,
\* printed as two digits of hours and two of minutes
FirstClockWord(message) ==
    IF \E i \in 1..Len(message) : strptime_HM(message[i]) # -1
    THEN LET i == CHOOSE k \in 1..Len(message) :
                    /\ strptime_HM(message[k]) # -1
                    /\ \A j \in 1..(k - 1) : strptime_HM(message[j]) = -1
         IN strftime_HM(strptime_HM(message[i]))
    ELSE None

fallback_extraction(message) ==
    [intent |-> IF Words(message) \cap BookWords # {} THEN "book"
                ELSE IF Words(message) \cap CheckWords # {} THEN "check"
                ELSE IF Words(message) \cap CancelWords # {} THEN "cancel"
                ELSE "unknown",
     date |-> IF "tomorrow" \in Words(message) THEN DateStr(7, 1)
              ELSE IF "today" \in Words(message) THEN DateStr(6, 30)
              ELSE None,
     time |-> FirstClockWord(message),
     summary |-> None]

(***************************************************************************)
(* agent.py:14-33                                                          *)
(***************************************************************************)
initial_state(user_message) ==
    [user_message |-> user_message,
     intent |-> None,
     date |-> None,
     start_time |-> None,
     end_time |-> None,
     availability |-> None,
     booking_confirmed |-> FALSE,
     response |-> <<>>,
     suggestions |-> <<>>,
     calendar_id |-> DefaultCalendar,
     summary |-> "Meeting",
     description |-> None,
     attendees |-> <<>>,
     needs_more_info |-> FALSE,
     has_history |-> TRUE,
     history |-> << [role |-> "user", content |-> user_message] >>]

\* what the turn in flight has done so far; while no turn is in flight,
\* deleted holds the identifiers deleted since the last turn, and
\* after_delete says that the turn in flight is for one of them
NoTurn ==
    [provider |-> "not_called",
     g |-> ProviderFailure,
     steps |-> <<>>,
     calls |-> <<>>,
     is_free |-> None,
     busy_times |-> <<>>,
     slots |-> <<>>,
     slots_done |-> FALSE,
     avail_failed |-> FALSE,
     at_booking |-> <<>>,
     insert_ok |-> FALSE,
     resp_written |-> FALSE,
     raised |-> FALSE,
     deleted |-> {},
     after_delete |-> FALSE]

\* a backend call that always names the default calendar
CallDefaultCalendar(op, st, start, end) ==
    [op |-> op, calendar_id |-> DefaultCalendar, date |-> st.date,
     start |-> start, end |-> end]

Call(op, st, start, end) ==
    [op |-> op, calendar_id |-> st.calendar_id, date |-> st.date,
     start |-> start, end |-> end]

\* a response that also forgets what the availability check found
RespondAndForget(st, text) == [st EXCEPT !.response = text, !.availability = None]

\* state["response"] = text
Respond(st, text) == [st EXCEPT !.response = text]

\* the slots written by their end instead of their start
FormatSlotsByEnd(slots) ==
    [i \in 1..Len(slots) |-> strftime_HM(slots[i] + slot_duration_minutes)]

\* agent.py:263, 292-293: slot.strftime("%H:%M") of every slot
FormatSlots(slots) == [i \in 1..Len(slots) |-> strftime_HM(slots[i])]

FirstN(s, n) == SubSeq(s, 1, IF Len(s) < n THEN Len(s) ELSE n)

\* agent.py:201-208 with the clobbering bug: the provider's value is stored
\* whether or not it is there
MergeSlotClobber(old, new) == new

\* agent.py:201-208: a slot is overwritten only by a value the provider gave
MergeSlot(old, new) == IF Truthy(new) THEN new ELSE old

\* agent.py:227-243 without the attendee test
NeedsMoreInfoNoAttendee(st) ==
    IF st.intent = "book"
    THEN ~Truthy(st.date) \/ ~Truthy(st.start_time)
    ELSE IF st.intent = "check" THEN ~Truthy(st.date)
    ELSE TRUE

\* agent.py:227-243 with the last branch letting the turn go on
NeedsMoreInfoOtherGoesOn(st) ==
    IF st.intent = "book"
    THEN ~Truthy(st.date) \/ ~Truthy(st.start_time) \/ st.attendees = <<>>
    ELSE IF st.intent = "check" THEN ~Truthy(st.date)
    ELSE FALSE

\* agent.py:227-243: the value needs_more_info is given
NeedsMoreInfo(st) ==
    IF st.intent = "book"
    THEN ~Truthy(st.date) \/ ~Truthy(st.start_time) \/ st.attendees = <<>>
    ELSE IF st.intent = "check" THEN ~Truthy(st.date)
    ELSE TRUE

(***************************************************************************)
(* agent.py:195-244.  be is what the backend does if it is called.         *)
(* A node returns the dict it mutated, or raises (exc) after the           *)
(* mutations it made.                                                      *)
(***************************************************************************)
conversational_node(st, tr, g, be) ==
    IF ~g.ok
    THEN [st |-> st, tr |-> [tr EXCEPT !.provider = "failed"], exc |-> TRUE]
    ELSE
    LET reply == <<GetOr(g.reply, "not_understood")>>
        s1 == [st EXCEPT
                 !.response = reply,
                 !.intent = GetOr(g.intent, "unknown"),
                 !.date = MergeSlot(@, g.date),
                 !.start_time = MergeSlot(@, g.time),
                 !.summary = MergeSlot(@, g.summary),
                 !.attendees = IF MergeSlot(None, g.email) = None
                               THEN @ ELSE <<MergeSlot(None, g.email)>>,
                 !.has_history = TRUE,
                 !.history = Append(@, [role |-> "assistant", content |-> reply])]
        t1 == [tr EXCEPT !.provider = "ok", !.g = g, !.resp_written = TRUE]
    IN
    IF s1.intent \in ListingIntents
    THEN IF ~be.auth
         THEN [st |-> s1, tr |-> t1, exc |-> TRUE]
         ELSE LET t2 == [t1 EXCEPT !.calls = Append(@, Call("list", s1, -1, -1))] IN
              IF ~be.q1.ok
              THEN [st |-> s1, tr |-> t2, exc |-> TRUE]
              ELSE [st |-> [s1 EXCEPT
                              !.response = IF be.q1.cal = <<>>
                                           THEN <<"no_upcoming_meetings">>
                                           ELSE <<"next_meetings">>,
                              !.needs_more_info = FALSE],
                    tr |-> t2, exc |-> FALSE]
    ELSE [st |-> [s1 EXCEPT
                    !.response = IF /\ s1.intent = "book"
                                    /\ Truthy(s1.date) /\ Truthy(s1.start_time)
                                    /\ s1.attendees = <<>>
                                 THEN <<"what_is_your_email_address">>
                                 ELSE @,
                    !.needs_more_info = NeedsMoreInfo(s1)],
          tr |-> t1, exc |-> FALSE]

(***************************************************************************)
(* agent.py:247-300.  be.auth: authenticate_google_calendar succeeds;      *)
(* be.q1, be.q2: the answers to the first and second backend query.        *)
(***************************************************************************)
check_availability_node(st, tr, be) ==
    IF st.needs_more_info
    THEN [st |-> st, tr |-> tr, exc |-> FALSE]
    ELSE IF st.intent = "check"
    THEN IF ~Truthy(st.date)
         THEN [st |-> Respond(st, <<"missing_date_for_check">>),
               tr |-> [tr EXCEPT !.resp_written = TRUE], exc |-> FALSE]
         ELSE IF ~strptime_Ymd_ok(st.date)
         THEN [st |-> Respond(st, <<"could_not_parse_date">>),
               tr |-> [tr EXCEPT !.resp_written = TRUE], exc |-> FALSE]
         ELSE IF ~be.auth
         THEN [st |-> st, tr |-> [tr EXCEPT !.avail_failed = TRUE], exc |-> TRUE]
         ELSE LET t1 == [tr EXCEPT
                           !.calls = Append(@, Call("freebusy", st, day_start, day_end))]
              IN
              IF ~be.q1.ok
              THEN [st |-> st, tr |-> [t1 EXCEPT !.avail_failed = TRUE], exc |-> TRUE]
              ELSE LET busy == freebusy(be.q1.cal, day_start, day_end)
                       suggestions == suggest_free_slots(busy)
                   IN [st |-> Respond(st,
                                IF suggestions # <<>>
                                THEN <<"available_slots">> \o FormatSlots(suggestions)
                                ELSE <<"no_free_slots">>),
                       tr |-> [t1 EXCEPT !.busy_times = busy, !.slots = suggestions,
                                         !.slots_done = TRUE,
                                         !.resp_written = TRUE],
                       exc |-> FALSE]
    ELSE IF ~Truthy(st.date) \/ ~Truthy(st.start_time)
    THEN [st |-> Respond(st, <<"missing_date_or_time_for_check">>),
          tr |-> [tr EXCEPT !.resp_written = TRUE], exc |-> FALSE]
    ELSE IF ~strptime_Ymd_ok(st.date) \/ strptime_HM(st.start_time) = -1
    THEN [st |-> Respond(st, <<"could_not_parse_date_time">>),
          tr |-> [tr EXCEPT !.resp_written = TRUE], exc |-> FALSE]
    ELSE
    LET start_dt == strptime_HM(st.start_time)
        end_dt == start_dt + 60
        s1 == [st EXCEPT !.end_time = strftime_HM(end_dt)]
        failed(s, t) == [st |-> Respond(s, <<"error_checking_availability">>),
                         tr |-> [t EXCEPT !.resp_written = TRUE,
                                          !.avail_failed = TRUE],
                         exc |-> FALSE]
    IN
    IF ~be.auth
    THEN failed(s1, tr)
    ELSE LET t1 == [tr EXCEPT !.calls = Append(@, Call("freebusy", s1, start_dt, end_dt))]
         IN
         IF ~be.q1.ok
         THEN failed(s1, t1)
         ELSE LET is_free == check_availability(be.q1.cal, start_dt, end_dt)
                  s2 == [s1 EXCEPT !.availability = IF is_free THEN "True" ELSE "False"]
                  t2 == [t1 EXCEPT !.is_free = IF is_free THEN "True" ELSE "False"]
              IN
              IF is_free
              THEN [st |-> Respond(s2, <<"slot_available_shall_i_book">>),
                    tr |-> [t2 EXCEPT !.resp_written = TRUE], exc |-> FALSE]
              ELSE LET t3 == [t2 EXCEPT
                                !.calls = Append(@, Call("freebusy", s2, day_start, day_end))]
                   IN
                   IF ~be.q2.ok
                   THEN failed(s2, t3)
                   ELSE LET busy == freebusy(be.q2.cal, day_start, day_end)
                            suggestions == suggest_free_slots(busy)
                            t4 == [t3 EXCEPT !.busy_times = busy, !.slots = suggestions,
                                             !.slots_done = TRUE,
                                             !.resp_written = TRUE]
                        IN
                        IF suggestions # <<>>
                        THEN [st |-> [s2 EXCEPT
                                        !.response = <<"not_available_how_about">>
                                                     \o FormatSlots(FirstN(suggestions, 3)),
                                        !.suggestions = FormatSlots(suggestions)],
                              tr |-> t4, exc |-> FALSE]
                        ELSE [st |-> [s2 EXCEPT
                                        !.response = <<"not_available_day_full">>,
                                        !.suggestions = <<>>],
                              tr |-> t4, exc |-> FALSE]

\* booking_node with booking_confirmed set before the insert has answered
booking_node_confirms_first(st, tr, be) ==
    IF st.availability # "True"
    THEN [st |-> Respond(st, <<"cannot_book_not_available">>),
          tr |-> [tr EXCEPT !.resp_written = TRUE], exc |-> FALSE]
    ELSE IF ~Truthy(st.date) \/ ~Truthy(st.start_time)
    THEN [st |-> Respond(st, <<"cannot_book_missing_date_or_time">>),
          tr |-> [tr EXCEPT !.resp_written = TRUE], exc |-> FALSE]
    ELSE IF ~strptime_Ymd_ok(st.date) \/ strptime_HM(st.start_time) = -1
    THEN [st |-> Respond(st, <<"could_not_parse_date_time_for_booking">>),
          tr |-> [tr EXCEPT !.resp_written = TRUE], exc |-> FALSE]
    ELSE
    LET start_dt == strptime_HM(st.start_time)
        end_dt == start_dt + 60
        t0 == [tr EXCEPT !.resp_written = TRUE]
    IN
    IF ~be.auth
    THEN [st |-> Respond(st, <<"booking_failed">>), tr |-> t0, exc |-> FALSE]
    ELSE LET t1 == [t0 EXCEPT !.calls = Append(@, Call("insert", st, start_dt, end_dt))]
         IN
         IF ~be.q1.ok
         THEN [st |-> [st EXCEPT !.booking_confirmed = TRUE,
                                 !.response = <<"booking_failed">>],
               tr |-> t1, exc |-> FALSE]
         ELSE [st |-> [st EXCEPT !.booking_confirmed = TRUE,
                                 !.response = <<"booked_event_link">>],
               tr |-> [t1 EXCEPT !.insert_ok = TRUE],
               exc |-> FALSE]

(***************************************************************************)
(* agent.py:303-337.  be.q1.ok: the insert of book_event succeeds.         *)
(***************************************************************************)
booking_node(st, tr, be) ==
    IF st.availability # "True"
    THEN [st |-> Respond(st, <<"cannot_book_not_available">>),
          tr |-> [tr EXCEPT !.resp_written = TRUE], exc |-> FALSE]
    ELSE IF ~Truthy(st.date) \/ ~Truthy(st.start_time)
    THEN [st |-> Respond(st, <<"cannot_book_missing_date_or_time">>),
          tr |-> [tr EXCEPT !.resp_written = TRUE], exc |-> FALSE]
    ELSE IF ~strptime_Ymd_ok(st.date) \/ strptime_HM(st.start_time) = -1
    THEN [st |-> Respond(st, <<"could_not_parse_date_time_for_booking">>),
          tr |-> [tr EXCEPT !.resp_written = TRUE], exc |-> FALSE]
    ELSE
    LET start_dt == strptime_HM(st.start_time)
        end_dt == start_dt + 60
        t0 == [tr EXCEPT !.resp_written = TRUE]
    IN
    IF ~be.auth
    THEN [st |-> Respond(st, <<"booking_failed">>), tr |-> t0, exc |-> FALSE]
    ELSE LET t1 == [t0 EXCEPT !.calls = Append(@, Call("insert", st, start_dt, end_dt))]
         IN
         IF ~be.q1.ok
         THEN [st |-> Respond(st, <<"booking_failed">>), tr |-> t1, exc |-> FALSE]
         ELSE [st |-> [st EXCEPT !.booking_confirmed = TRUE,
                                 !.response = <<"booked_event_link">>],
               tr |-> [t1 EXCEPT !.insert_ok = TRUE],
               exc |-> FALSE]

(***************************************************************************)
(* agent.py:340-366: the edges of the graph.                               *)
(***************************************************************************)
route_conversational(st) ==
    IF st.intent \in {"book", "check"} /\ ~st.needs_more_info
    THEN "check_availability" ELSE "return"

\* the edge to booking taken whatever the state
route_check_availability_always(st) == "booking"

route_check_availability(st) ==
    IF st.availability = "True" /\ st.intent = "book"
    THEN "booking" ELSE "return"

\* an edge from booking back to the availability check
route_booking_back(st) == "check_availability"

\* agent.py:364: booking -> END
route_booking(st) == "return"

(***************************************************************************)
(* agent.py:369-385: run_agent.                                            *)
(***************************************************************************)
\* lines 371-376 with the history started afresh by every message
run_agent_enter_fresh(user_message, st) ==
    [st EXCEPT !.user_message = user_message,
               !.has_history = TRUE,
               !.history = <<[role |-> "user", content |-> user_message]>>,
               !.needs_more_info = FALSE]

\* lines 371-376: main.py never passes state = None
run_agent_enter(user_message, st) ==
    [st EXCEPT !.user_message = user_message,
               !.has_history = TRUE,
               !.history = Append(@, [role |-> "user", content |-> user_message]),
               !.needs_more_info = FALSE]

\* run_agent without its try: the exception leaves run_agent
run_agent_uncaught(st) == [raised |-> TRUE, st |-> st]

\* lines 383-385: an exception of a node becomes the response of the turn.
\* The nodes mutate the dict they are given, so the mutations made before
\* the exception are in the dict that is returned.
run_agent_except(st) ==
    [raised |-> FALSE, st |-> Respond(st, <<"sorry_i_encountered_an_error">>)]

(***************************************************************************)
(* The requests.                                                           *)
(***************************************************************************)
IdleState == initial_state(<<>>)
NoRequest == [endpoint |-> "none", session_id |-> "none", shared_history |-> FALSE]

\* what the backend does during one node
\* (a call that is not reached, and the calendar of a call that raises,
\* are fixed: they have no effect)
NoAnswer == [ok |-> TRUE, cal |-> <<>>]
Raises == [ok |-> FALSE, cal |-> <<>>]
BackendUnused == [auth |-> TRUE, q1 |-> NoAnswer, q2 |-> NoAnswer]
BackendOneCall ==
    { [auth |-> FALSE, q1 |-> NoAnswer, q2 |-> NoAnswer] }
    \cup { [auth |-> TRUE, q1 |-> a, q2 |-> NoAnswer] :
             a \in {Raises} \cup [ok : {TRUE}, cal : Calendars] }
BackendOutcomes ==
    BackendOneCall
    \cup { [auth |-> TRUE, q1 |-> a, q2 |-> b] :
             a \in [ok : {TRUE}, cal : Calendars \ {<<>>}],
             b \in {Raises} \cup [ok : {TRUE}, cal : Calendars] }

\* the two requests the server may have accepted at the same time
Tasks == {"t1", "t2"}

\* what the provider and the backend do during one run of the graph
NoOutcome == [g |-> ProviderFailure, be |-> BackendUnused]

\* a task the server has not been given
NoTask ==
    [pc |-> "none", endpoint |-> "none", session_id |-> "none",
     message |-> <<>>, st |-> IdleState, out |-> NoOutcome,
     waited |-> FALSE, status |-> 0]

NoTasks == [t \in Tasks |-> NoTask]

Init ==
    /\ sessions = << >>
    /\ pc = "idle"
    /\ req = NoRequest
    /\ state = IdleState
    /\ turn = NoTurn
    /\ turns = 0
    /\ pl_pc = "off"
    /\ pl_busy = <<>>
    /\ pl_intervals = <<>>
    /\ pl_current = 0
    /\ pl_suggestions = <<>>
    /\ tasks = NoTasks

\* a store that writes the value under every identifier it holds
StoreSessionEverywhere(session_id, value) ==
    [x \in (DOMAIN sessions) \cup {session_id} |-> value]

\* sessions[session_id] = value
StoreSession(session_id, value) ==
    [x \in (DOMAIN sessions) \cup {session_id} |->
        IF x = session_id THEN value ELSE sessions[x]]

\* main.py:55-75: /chat up to the call of the graph
ChatStart(session_id, user_message, calendar_id) ==
    /\ pc = "idle"
    /\ turns < MaxTurns
    /\ LET existing == session_id \in DOMAIN sessions
           st0 == IF existing
                  THEN sessions[session_id]
                  ELSE [initial_state(user_message) EXCEPT !.calendar_id = calendar_id]
           shared == existing /\ st0.has_history
           st1 == run_agent_enter(user_message, st0)
       IN /\ state' = st1
          /\ req' = [endpoint |-> "chat", session_id |-> session_id,
                     shared_history |-> shared]
          \* the copy of line 67 is shallow: the history list is the stored one
          /\ sessions' = IF shared
                         THEN [sessions EXCEPT ![session_id].history = st1.history]
                         ELSE sessions
    /\ pc' = "conversational"
    /\ turn' = [NoTurn EXCEPT !.after_delete = session_id \in turn.deleted]
    /\ turns' = turns + 1
    /\ UNCHANGED <<plVars, tasks>>

\* main.py:159-181: /quick-book up to the call of the graph
QuickBookStart(date, time, summary, calendar_id) ==
    /\ pc = "idle"
    /\ turns < MaxTurns
    /\ LET st0 == [initial_state(<<"Book", summary, "on", date, "at", time>>) EXCEPT
                     !.calendar_id = calendar_id,
                     !.date = date,
                     !.start_time = time,
                     !.summary = summary,
                     !.description = None,
                     !.intent = "book"]
       IN state' = run_agent_enter(<<>>, st0)
    /\ req' = [endpoint |-> "quick_book", session_id |-> "none", shared_history |-> FALSE]
    /\ pc' = "conversational"
    /\ turn' = NoTurn
    /\ turns' = turns + 1
    /\ UNCHANGED <<sessions, plVars, tasks>>

\* main.py:207-223: /check-availability up to the call of the graph
CheckAvailabilityStart(date, calendar_id) ==
    /\ pc = "idle"
    /\ turns < MaxTurns
    /\ LET st0 == [initial_state(<<"Check", "availability", "for", date>>) EXCEPT
                     !.calendar_id = calendar_id,
                     !.date = date,
                     !.intent = "check"]
       IN state' = run_agent_enter(<<>>, st0)
    /\ req' = [endpoint |-> "check_availability", session_id |-> "none",
               shared_history |-> FALSE]
    /\ pc' = "conversational"
    /\ turn' = NoTurn
    /\ turns' = turns + 1
    /\ UNCHANGED <<sessions, plVars, tasks>>

\* a node has run: the edge out of it, or the except clause of run_agent
AfterNode(node, r, route) ==
    LET caught == run_agent_except(r.st) IN
    /\ state' = IF r.exc THEN caught.st ELSE r.st
    /\ turn' = [r.tr EXCEPT !.steps = Append(@, node),
                            !.raised = r.exc /\ caught.raised,
                            !.resp_written = @ \/ (r.exc /\ ~caught.raised)]
    /\ pc' = IF r.exc THEN "return" ELSE route
    /\ sessions' = IF req.shared_history
                   THEN [sessions EXCEPT ![req.session_id].history = r.st.history]
                   ELSE sessions
    /\ UNCHANGED <<req, turns, plVars, tasks>>

ConversationalNode ==
    /\ pc = "conversational"
    /\ \E g \in ProviderOutcomes :
       \E be \in (IF GetOr(g.intent, "unknown") \in ListingIntents
                  THEN BackendOneCall ELSE {BackendUnused}) :
          LET r == conversational_node(state, turn, g, be)
          IN AfterNode("conversational", r, route_conversational(r.st))

CheckAvailabilityNode ==
    /\ pc = "check_availability"
    /\ \E be \in (IF state.intent = "check" THEN BackendOneCall ELSE BackendOutcomes) :
          LET r == check_availability_node(state, turn, be)
          IN AfterNode("check_availability", r, route_check_availability(r.st))

BookingNode ==
    /\ pc = "booking"
    /\ \E be \in BackendOneCall :
          LET t0 == [turn EXCEPT !.at_booking = <<state.availability, state.intent>>]
              r == booking_node(state, t0, be)
          IN AfterNode("booking", r, route_booking(r.st))

\* main.py:77-98: run_agent has returned (or raised, which is HTTP 500)
ChatFinish ==
    /\ pc = "return"
    /\ req.endpoint = "chat"
    /\ sessions' = IF turn.raised THEN sessions
                   ELSE StoreSession(req.session_id, state)
    /\ pc' = "idle"
    /\ req' = NoRequest
    /\ state' = IdleState
    /\ turn' = NoTurn
    /\ UNCHANGED <<turns, plVars, tasks>>

\* main.py:183-204 and 225-233: the result is answered and dropped
QuickFinish ==
    /\ pc = "return"
    /\ req.endpoint \in {"quick_book", "check_availability"}
    /\ pc' = "idle"
    /\ req' = NoRequest
    /\ state' = IdleState
    /\ turn' = NoTurn
    /\ UNCHANGED <<sessions, turns, plVars, tasks>>

\* main.py:100-127: the uuid is an identifier no session has
create_new_session(calendar_id) ==
    [initial_state(<<>>) EXCEPT
        !.response = <<"hello_i_am_your_calendar_booking_assistant">>,
        !.calendar_id = calendar_id,
        !.has_history = FALSE,
        !.history = <<>>]

CreateNewSession(session_id, calendar_id) ==
    /\ pc = "idle"
    /\ session_id \notin DOMAIN sessions
    /\ sessions' = StoreSession(session_id, create_new_session(calendar_id))
    /\ turn' = [turn EXCEPT !.deleted = @ \ {session_id}]
    /\ UNCHANGED <<pc, req, state, turns, plVars, tasks>>

\* a deletion that empties the transcript and keeps the entry
DeleteSessionKeepsSlots(session_id) ==
    /\ pc = "idle"
    /\ session_id \in DOMAIN sessions
    /\ sessions' = [sessions EXCEPT ![session_id].history = <<>>,
                                    ![session_id].has_history = FALSE]
    /\ turn' = [turn EXCEPT !.deleted = @ \cup {session_id}]
    /\ UNCHANGED <<pc, req, state, turns, plVars, tasks>>

\* main.py:140-148
DeleteSession(session_id) ==
    /\ pc = "idle"
    /\ session_id \in DOMAIN sessions
    /\ sessions' = [x \in (DOMAIN sessions) \ {session_id} |-> sessions[x]]
    /\ turn' = [turn EXCEPT !.deleted = @ \cup {session_id}]
    /\ UNCHANGED <<pc, req, state, turns, plVars, tasks>>

QuickDates == {"2024-07-01"}
QuickTimes == {"10:00"}

Next ==
    \/ \E sid \in SessionIds, m \in Messages : ChatStart(sid, m, DefaultCalendar)
    \/ \E d \in QuickDates, t \in QuickTimes : QuickBookStart(d, t, "Meeting", DefaultCalendar)
    \/ \E d \in QuickDates : CheckAvailabilityStart(d, DefaultCalendar)
    \/ ConversationalNode
    \/ CheckAvailabilityNode
    \/ BookingNode
    \/ ChatFinish
    \/ QuickFinish
    \/ \E sid \in SessionIds : CreateNewSession(sid, OtherCalendar)
    \/ \E sid \in SessionIds : DeleteSession(sid)

Spec == Init /\ [][Next]_vars

(***************************************************************************)
(* suggest_free_slots step by step, over every list of at most MaxBusy     *)
(* busy intervals with end points in BusyPoints (intervals that overlap,   *)
(* nest, are empty or reversed, or lie outside the window included).       *)
(***************************************************************************)
BusyPoints == {510, 540, 570, 600, 1020, 1050, 1110}
BusyIntervals == BusyPoints \X BusyPoints
BusyLists == UNION { [1..k -> BusyIntervals] : k \in 0..MaxBusy }

InitSlots ==
    /\ sessions = << >>
    /\ pc = "idle"
    /\ req = NoRequest
    /\ state = IdleState
    /\ turn = NoTurn
    /\ turns = 0
    /\ pl_pc = "query"
    /\ pl_busy \in BusyLists
    /\ pl_intervals = <<>>
    /\ pl_current = 0
    /\ pl_suggestions = <<>>
    /\ tasks = NoTasks

\* calendar_utils.py:81: the query raises, and so does suggest_free_slots
SlotsQueryFails ==
    /\ pl_pc = "query"
    /\ pl_pc' = "raised"
    /\ UNCHANGED <<pl_busy, pl_intervals, pl_current, pl_suggestions, pipeVars, tasks>>

\* calendar_utils.py:71-88
SlotsBegin ==
    /\ pl_pc = "query"
    /\ pl_intervals' = SortIntervals(pl_busy)
    /\ pl_current' = day_start
    /\ pl_suggestions' = <<>>
    /\ pl_pc' = "loop"
    /\ UNCHANGED <<pl_busy, pipeVars, tasks>>

\* calendar_utils.py:89-100, an iteration that meets a busy interval
SlotsSkip ==
    /\ pl_pc = "loop"
    /\ SlotLoopGuard(pl_current, pl_suggestions)
    /\ FirstOverlap(pl_current, pl_intervals) # 0
    /\ LET n == SlotLoopBody(pl_current, pl_suggestions, pl_intervals)
       IN /\ pl_current' = n.current
          /\ pl_suggestions' = n.suggestions
    /\ UNCHANGED <<pl_pc, pl_busy, pl_intervals, pipeVars, tasks>>

\* calendar_utils.py:89-100, an iteration that accepts the slot
SlotsAccept ==
    /\ pl_pc = "loop"
    /\ SlotLoopGuard(pl_current, pl_suggestions)
    /\ FirstOverlap(pl_current, pl_intervals) = 0
    /\ LET n == SlotLoopBody(pl_current, pl_suggestions, pl_intervals)
       IN /\ pl_current' = n.current
          /\ pl_suggestions' = n.suggestions
    /\ UNCHANGED <<pl_pc, pl_busy, pl_intervals, pipeVars, tasks>>

\* calendar_utils.py:89 and 102
SlotsReturn ==
    /\ pl_pc = "loop"
    /\ ~SlotLoopGuard(pl_current, pl_suggestions)
    /\ pl_pc' = "done"
    /\ UNCHANGED <<pl_busy, pl_intervals, pl_current, pl_suggestions, pipeVars, tasks>>

NextSlots ==
    \/ SlotsQueryFails
    \/ SlotsBegin
    \/ SlotsSkip
    \/ SlotsAccept
    \/ SlotsReturn

SpecSlots == InitSlots /\ [][NextSlots]_vars

\* suggest_free_slots is a synchronous call: a statement that can run, runs
SpecSlotsFair == SpecSlots /\ WF_vars(NextSlots)

(***************************************************************************)
(* The server: uvicorn runs the application on one event loop              *)
(* (main.py:235-237).  A request the server has accepted is a task; the    *)
(* loop runs one task at a time, and a task keeps the loop until it        *)
(* awaits or returns.  No endpoint of main.py awaits.                      *)
(***************************************************************************)
\* the backend during one run of the graph: every call succeeds and the
\* calendar is empty, every call succeeds and ten o'clock is taken, or
\* authentication fails
LoopBackends ==
    { BackendUnused,
      [auth |-> TRUE,
       q1 |-> [ok |-> TRUE, cal |-> << <<600, 660>> >>],
       q2 |-> [ok |-> TRUE, cal |-> << <<600, 660>> >>]],
      [auth |-> FALSE, q1 |-> NoAnswer, q2 |-> NoAnswer] }

LoopOutcomes == [g : ProviderOutcomes, be : LoopBackends]

\* agent.py:378-385: agent.invoke(state) inside the try of run_agent
RunGraph(st, o) ==
    LET r1 == conversational_node(st, NoTurn, o.g, o.be) IN
    IF r1.exc THEN run_agent_except(r1.st).st
    ELSE IF route_conversational(r1.st) = "return" THEN r1.st
    ELSE
    LET r2 == check_availability_node(r1.st, r1.tr, o.be) IN
    IF r2.exc THEN run_agent_except(r2.st).st
    ELSE IF route_check_availability(r2.st) = "return" THEN r2.st
    ELSE
    LET r3 == booking_node(r2.st, r2.tr, o.be) IN
    IF r3.exc THEN run_agent_except(r3.st).st ELSE r3.st

\* main.py:66-72: the dict a /chat request starts from
chat_state(store, session_id, user_message, calendar_id) ==
    IF session_id \in DOMAIN store
    THEN store[session_id]
    ELSE [initial_state(user_message) EXCEPT !.calendar_id = calendar_id]

\* main.py:129-138: the status answered and the store afterwards
get_session_or_create(store, session_id) ==
    IF session_id \notin DOMAIN store
    THEN [status |-> 200,
          sessions |-> [x \in (DOMAIN store) \cup {session_id} |->
                          IF x = session_id THEN create_new_session(DefaultCalendar)
                          ELSE store[x]]]
    ELSE [status |-> 200, sessions |-> store]

\* main.py:129-138: the status answered and the store afterwards
get_session(store, session_id) ==
    IF session_id \notin DOMAIN store
    THEN [status |-> 404, sessions |-> store]
    ELSE [status |-> 200, sessions |-> store]

\* main.py:140-148: the status answered and the store afterwards
delete_session(store, session_id) ==
    IF session_id \notin DOMAIN store
    THEN [status |-> 404, sessions |-> store]
    ELSE [status |-> 200,
          sessions |-> [x \in (DOMAIN store) \ {session_id} |-> store[x]]]

\* a loop that starts a task while another one is between two statements
LoopFreeAnyTime(ts) == TRUE

\* the event loop can start a task: no task is in the middle of its handler
LoopFree(ts) == \A t \in Tasks : ts[t].pc # "running"

InitServer ==
    /\ sessions = << >>
    /\ pc = "idle"
    /\ req = NoRequest
    /\ state = IdleState
    /\ turn = NoTurn
    /\ turns = 0
    /\ pl_pc = "off"
    /\ pl_busy = <<>>
    /\ pl_intervals = <<>>
    /\ pl_current = 0
    /\ pl_suggestions = <<>>
    /\ tasks = NoTasks

\* the server accepts a request and makes a task of it
Arrive(t, endpoint, session_id, user_message) ==
    /\ tasks[t].pc = "none"
    /\ tasks' = [tasks EXCEPT ![t] = [NoTask EXCEPT !.pc = "pending",
                                                   !.endpoint = endpoint,
                                                   !.session_id = session_id,
                                                   !.message = user_message]]
    /\ UNCHANGED <<pipeVars, plVars>>

\* main.py:56-75 and agent.py:369-376: the loop starts a /chat handler,
\* which runs up to the call of the graph
ChatHandlerBegin(t) ==
    /\ tasks[t].pc = "pending"
    /\ tasks[t].endpoint = "chat"
    /\ LoopFree(tasks)
    /\ LET sid == tasks[t].session_id
           st0 == chat_state(sessions, sid, tasks[t].message, DefaultCalendar)
           shared == sid \in DOMAIN sessions /\ st0.has_history
           st1 == run_agent_enter(tasks[t].message, st0)
       IN /\ tasks' = [u \in Tasks |->
                         IF u = t THEN [tasks[t] EXCEPT !.pc = "running", !.st = st1]
                         ELSE IF tasks[u].pc = "pending"
                         THEN [tasks[u] EXCEPT !.waited = TRUE]
                         ELSE tasks[u]]
          \* the copy of line 67 is shallow: the history list is the stored one
          /\ sessions' = IF shared
                         THEN [sessions EXCEPT ![sid].history = st1.history]
                         ELSE sessions
    /\ UNCHANGED <<pc, req, state, turn, turns, plVars>>

\* agent.py:378-385 and main.py:75-78: the graph runs and the result is stored
ChatHandlerEnd(t) ==
    /\ tasks[t].pc = "running"
    /\ \E o \in LoopOutcomes :
          /\ sessions' = StoreSession(tasks[t].session_id, RunGraph(tasks[t].st, o))
          /\ tasks' = [tasks EXCEPT ![t].pc = "done", ![t].out = o, ![t].status = 200]
    /\ UNCHANGED <<pc, req, state, turn, turns, plVars>>

\* main.py:129-138
GetSessionHandler(t) ==
    /\ tasks[t].pc = "pending"
    /\ tasks[t].endpoint = "get_session"
    /\ LoopFree(tasks)
    /\ LET a == get_session(sessions, tasks[t].session_id)
       IN /\ sessions' = a.sessions
          /\ tasks' = [tasks EXCEPT ![t].pc = "done", ![t].status = a.status]
    /\ UNCHANGED <<pc, req, state, turn, turns, plVars>>

\* main.py:140-148
DeleteSessionHandler(t) ==
    /\ tasks[t].pc = "pending"
    /\ tasks[t].endpoint = "delete_session"
    /\ LoopFree(tasks)
    /\ LET a == delete_session(sessions, tasks[t].session_id)
       IN /\ sessions' = a.sessions
          /\ tasks' = [tasks EXCEPT ![t].pc = "done", ![t].status = a.status]
    /\ UNCHANGED <<pc, req, state, turn, turns, plVars>>

NextServer ==
    \/ \E t \in Tasks, e \in {"chat", "get_session", "delete_session"},
          sid \in SessionIds, m \in Messages : Arrive(t, e, sid, m)
    \/ \E t \in Tasks : ChatHandlerBegin(t)
    \/ \E t \in Tasks : ChatHandlerEnd(t)
    \/ \E t \in Tasks : GetSessionHandler(t)
    \/ \E t \in Tasks : DeleteSessionHandler(t)

SpecServer == InitServer /\ [][NextServer]_vars

(***************************************************************************)
(* Properties of the dialogue pipeline.                                    *)
(***************************************************************************)
TurnEnded == pc = "return"

InsertCalled == \E i \in 1..Len(turn.calls) : turn.calls[i].op = "insert"

ErrorResponse == <<"sorry_i_encountered_an_error">>

\* C1: the backend's insert is called in a turn only if, when the Booking
\* step started, availability was true and intent was book; a turn that ends
\* with needs_more_info, with another intent or without availability has
\* made no insert call.
C1_InsertOnlyWhenAvailableAndBook ==
    InsertCalled =>
        /\ turn.at_booking = <<"True", "book">>
        /\ state.intent = "book"
        /\ state.availability = "True"
        /\ ~state.needs_more_info

C1_Witness ==
    /\ TurnEnded
    /\ InsertCalled
    /\ turn.at_booking = <<"True", "book">>

\* C2: an insert is called in a turn only if the availability query of
\* that same turn answered that the slot is free.
C2_InsertOnlyAfterFreeAnswerThisTurn ==
    InsertCalled => turn.is_free = "True"

\* C3: a turn in which the backend answered that the requested slot is free
\* ends with availability true, the question whether to book, and no insert.
C3_FreeSlotEndsTurnWithQuestion ==
    (TurnEnded /\ turn.is_free = "True") =>
        /\ state.availability = "True"
        /\ state.response = <<"slot_available_shall_i_book">>
        /\ ~InsertCalled

\* C4: at the end of a turn booking_confirmed is true exactly when an
\* insert succeeded during that turn.
C4_BookingConfirmedIffInsertedThisTurn ==
    TurnEnded => (state.booking_confirmed <=> turn.insert_ok)

\* C5: a turn whose provider call failed ends with the intent the regex
\* fallback reads in the latest user message and with a response that is
\* not the error message.
C5_ProviderFailureUsesFallback ==
    (TurnEnded /\ turn.provider = "failed") =>
        /\ state.response # ErrorResponse
        /\ state.intent = fallback_extraction(state.user_message).intent

\* C6: whatever fails during a turn (provider, date/time parsing, backend),
\* run_agent returns a slot state, with every key and a response written
\* during this turn, and does not raise.
C6_RunAgentReturnsResponse ==
    TurnEnded =>
        /\ ~turn.raised
        /\ turn.resp_written
        /\ state.response # <<>>
        /\ DOMAIN state = DOMAIN IdleState
        /\ state.has_history

C6_Witness ==
    /\ TurnEnded
    /\ state.response = ErrorResponse
    /\ turn.provider = "ok"
    /\ Len(turn.calls) > 0

\* C7: the Interpret step changes date, start_time, summary and attendees
\* only to a value the provider supplied, and a stored session never loses
\* a value of these fields it has.
C7_InterpretKeepsKnownSlots ==
    [][/\ pc = "conversational" =>
            /\ state'.date = state.date
               \/ (turn'.provider = "ok" /\ state'.date = turn'.g.date
                   /\ Truthy(turn'.g.date))
            /\ state'.start_time = state.start_time
               \/ (turn'.provider = "ok" /\ state'.start_time = turn'.g.time
                   /\ Truthy(turn'.g.time))
            /\ state'.summary = state.summary
               \/ (turn'.provider = "ok" /\ state'.summary = turn'.g.summary
                   /\ Truthy(turn'.g.summary))
            /\ state'.attendees = state.attendees
               \/ (turn'.provider = "ok" /\ state'.attendees = <<turn'.g.email>>
                   /\ Truthy(turn'.g.email))
       /\ \A sid \in (DOMAIN sessions) \cap (DOMAIN sessions') :
            /\ Truthy(sessions[sid].date) => Truthy(sessions'[sid].date)
            /\ Truthy(sessions[sid].start_time) => Truthy(sessions'[sid].start_time)
            /\ Truthy(sessions[sid].summary) => Truthy(sessions'[sid].summary)
            /\ sessions[sid].attendees # <<>> => sessions'[sid].attendees # <<>>
      ]_vars

\* a second turn whose provider result carries no slot, after a turn that
\* set them all
C7_Witness ==
    /\ turns = 2
    /\ turn.steps = <<"conversational">>
    /\ turn.provider = "ok"
    /\ turn.g.date = None /\ turn.g.time = None
    /\ turn.g.summary = None /\ turn.g.email = None
    /\ state.date = "2024-07-01" /\ state.start_time = "10:00"
    /\ state.summary = "Dentist" /\ state.attendees = <<"a@b.com">>

\* the Interpret step has just run to its end
AfterInterpret ==
    /\ turn.steps = <<"conversational">>
    /\ turn.provider = "ok"
    /\ state.response # ErrorResponse

\* C8: after the Interpret step, for intent book needs_more_info is true
\* exactly when date, start_time or attendees is absent, for intent check
\* exactly when date is absent, and a booking that lacks only the attendee
\* is answered by the request for an email address.
C8_NeedsMoreInfoAfterInterpret ==
    AfterInterpret =>
        /\ state.intent = "book" =>
              (state.needs_more_info <=>
                  (~Truthy(state.date) \/ ~Truthy(state.start_time)
                   \/ state.attendees = <<>>))
        /\ state.intent = "check" =>
              (state.needs_more_info <=> ~Truthy(state.date))
        /\ (/\ state.intent = "book"
            /\ Truthy(state.date) /\ Truthy(state.start_time)
            /\ state.attendees = <<>>)
              => state.response = <<"what_is_your_email_address">>

C8_Witness ==
    /\ AfterInterpret
    /\ state.intent = "book"
    /\ Truthy(state.date) /\ Truthy(state.start_time)
    /\ state.attendees = <<>>
    /\ state.needs_more_info
    /\ state.response = <<"what_is_your_email_address">>

\* the provider answered with an intent that is neither book nor check nor
\* a listing of meetings
OtherIntentTurn ==
    /\ turn.provider = "ok"
    /\ GetOr(turn.g.intent, "unknown") \notin ({"book", "check"} \cup ListingIntents)

\* C9: a turn whose interpreted intent is neither book, check nor a listing
\* ends after the Interpret step with needs_more_info true and without any
\* call of the calendar backend.
C9_OtherIntentStopsWithoutBackend ==
    OtherIntentTurn =>
        /\ TurnEnded
        /\ state.needs_more_info
        /\ turn.calls = <<>>
        /\ turn.steps = <<"conversational">>

\* such a turn in a session that an earlier turn left ready to book
C9_Witness ==
    /\ OtherIntentTurn
    /\ TurnEnded
    /\ turns = 2
    /\ state.availability = "True"
    /\ Truthy(state.date) /\ Truthy(state.start_time)
    /\ state.attendees # <<>>

(***************************************************************************)
(* Properties of suggest_free_slots.                                       *)
(***************************************************************************)
\* C10: every slot start s that suggest_free_slots has accepted lies with
\* its whole duration inside the window 09:00-18:00 and meets no busy
\* interval of the backend's answer (none has s < end and s + duration >
\* start).
C10_SlotsInWindowAndFree ==
    \A i \in 1..Len(pl_suggestions) :
        LET s == pl_suggestions[i] IN
        /\ day_start <= s
        /\ s + slot_duration_minutes <= day_end
        /\ \A k \in 1..Len(pl_busy) :
              ~(s < pl_busy[k][2] /\ s + slot_duration_minutes > pl_busy[k][1])

\* a returned slot found after skipping a busy interval inside the window
C10_Witness ==
    /\ pl_pc = "done"
    /\ Len(pl_suggestions) > 0
    /\ pl_suggestions[1] > day_start
    /\ \E k \in 1..Len(pl_busy) :
          /\ pl_busy[k][1] > day_start
          /\ pl_busy[k][1] < pl_busy[k][2]
          /\ pl_busy[k][2] < day_end


\* C11: the slots suggest_free_slots has accepted are strictly increasing,
\* each at least one slot duration after the one before it, and there are
\* never more than max_suggestions of them.
C11_SlotsIncreasingApartAndBounded ==
    /\ Len(pl_suggestions) <= max_suggestions
    /\ \A i \in 1..(Len(pl_suggestions) - 1) :
          /\ pl_suggestions[i] < pl_suggestions[i + 1]
          /\ pl_suggestions[i] + slot_duration_minutes <= pl_suggestions[i + 1]

\* the planner has returned two slots that a busy interval separates
C11_Witness ==
    /\ pl_pc = "done"
    /\ Len(pl_suggestions) >= 2
    /\ \E i \in 1..(Len(pl_suggestions) - 1) :
          pl_suggestions[i] + slot_duration_minutes < pl_suggestions[i + 1]


\* the turn asked the backend about the requested slot and was told it is busy
SlotReportedBusy == TurnEnded /\ turn.is_free = "False"

\* what a busy slot leaves behind: availability false, the free slots of
\* the day as HH:MM strings in suggestions, at most the first three of them
\* in the response (or the statement that the day is full), and no insert
BusyTurnOutcome ==
    LET free == suggest_free_slots(turn.busy_times)
        texts == [i \in 1..Len(free) |-> strftime_HM(free[i])]
    IN /\ state.availability = "False"
       /\ state.suggestions = texts
       /\ state.response =
             IF texts = <<>>
             THEN <<"not_available_day_full">>
             ELSE <<"not_available_how_about">>
                  \o SubSeq(texts, 1, IF Len(texts) < 3 THEN Len(texts) ELSE 3)
       /\ ~InsertCalled

IsPrefix(h, k) == Len(h) <= Len(k) /\ SubSeq(k, 1, Len(h)) = h

\* C13: the history of a session only grows: whatever step is taken, the
\* history stored for a session before the step is a prefix of the history
\* stored for it after the step, and every entry in it is said by the user
\* or by the assistant.
C13_HistoryAppendOnly ==
    [][\A sid \in (DOMAIN sessions) \cap (DOMAIN sessions') :
          /\ IsPrefix(sessions[sid].history, sessions'[sid].history)
          /\ \A i \in 1..Len(sessions'[sid].history) :
                sessions'[sid].history[i].role \in {"user", "assistant"}]_vars

\* a session has been through two /chat turns
C13_Witness ==
    /\ pc = "idle"
    /\ turns = 2
    /\ \E sid \in DOMAIN sessions :
          /\ Len(sessions[sid].history) >= 4
          /\ \E i, j \in 1..Len(sessions[sid].history) :
                /\ i < j
                /\ sessions[sid].history[i].role = "assistant"
                /\ sessions[sid].history[j].role = "assistant"


\* C14: a /quick-book or /check-availability request never runs the
\* interpreting step: the provider is not called, and the intent the
\* pipeline routes on is the one the endpoint set (book, respectively
\* check) with the date the request gave.
C14_QuickEndpointsBypassInterpret ==
    req.endpoint \in {"quick_book", "check_availability"} =>
        /\ turn.provider = "not_called"
        /\ \A i \in 1..Len(turn.steps) : turn.steps[i] # "conversational"
        /\ state.intent = (IF req.endpoint = "quick_book" THEN "book" ELSE "check")
        /\ state.date \in QuickDates


\* the three steps in the only order the graph runs them
ForwardPass == <<"conversational", "check_availability", "booking">>

\* C17: a turn is one forward pass: the steps that have run are a beginning
\* of Interpret, Availability Check, Booking (so each has run at most once
\* and none is re-entered), the step about to run is the one that follows
\* them, and after Booking the turn has ended.
C17_SingleForwardPass ==
    /\ IsPrefix(turn.steps, ForwardPass)
    /\ pc = "idle" => turn.steps = <<>>
    /\ pc \in {"conversational", "check_availability", "booking"} =>
          /\ Len(turn.steps) < Len(ForwardPass)
          /\ pc = ForwardPass[Len(turn.steps) + 1]
    /\ Len(turn.steps) = Len(ForwardPass) => pc = "return"

\* a turn that ran all three steps and ended
C17_Witness ==
    /\ pc = "return"
    /\ turn.steps = ForwardPass


\* the availability check ran in this turn
AvailabilityCheckRan ==
    \E i \in 1..Len(turn.steps) : turn.steps[i] = "check_availability"

\* C18: a turn that runs the availability check overwrites suggestions
\* with its own result: after a check turn suggestions holds the free slots
\* the response reports, and after a book turn that found the slot free
\* suggestions is empty, whatever an earlier turn stored.
C18_AvailabilityCheckOverwritesSuggestions ==
    (TurnEnded /\ AvailabilityCheckRan) =>
        /\ (state.intent = "check" /\ turn.slots_done) =>
              /\ state.suggestions = [i \in 1..Len(turn.slots) |-> strftime_HM(turn.slots[i])]
              /\ state.response \in
                    { <<"available_slots">> \o state.suggestions, <<"no_free_slots">> }
        /\ turn.is_free = "True" => state.suggestions = <<>>

\* C19: when authenticating or querying the backend fails during the
\* availability check, the turn ends with a failure response and
\* availability is not true.
C19_FailedCheckLeavesAvailabilityNotTrue ==
    (TurnEnded /\ turn.avail_failed) =>
        /\ state.availability # "True"
        /\ state.response \in { <<"error_checking_availability">>, ErrorResponse }

\* C20: at the end of a turn, an end_time that is present is the clock
\* time sixty minutes after start_time.
C20_EndTimeIsStartPlusHour ==
    (TurnEnded /\ state.end_time # None) =>
        /\ strptime_HM(state.start_time) # -1
        /\ state.end_time = strftime_HM(strptime_HM(state.start_time) + 60)


\* both tasks are /chat turns of the same session, and both have returned
BothChatTurnsDone(a, b) ==
    /\ a # b
    /\ tasks[a].endpoint = "chat" /\ tasks[b].endpoint = "chat"
    /\ tasks[a].session_id = tasks[b].session_id
    /\ tasks[a].pc = "done" /\ tasks[b].pc = "done"

\* the entry a new session has after the turn of task a and then the turn
\* of task b, each run from its first statement to its last
OneAfterTheOther(a, b) ==
    LET first == RunGraph(run_agent_enter(tasks[a].message,
                              chat_state(<< >>, tasks[a].session_id,
                                         tasks[a].message, DefaultCalendar)),
                          tasks[a].out)
    IN RunGraph(run_agent_enter(tasks[b].message, first), tasks[b].out)

\* C15: two /chat turns of one session that the server holds at the same
\* time are serialized: once both have returned, the stored entry is the
\* one that running the two turns one after the other, in one of the two
\* orders, produces.
C15_ConcurrentChatTurnsSerialized ==
    \A a, b \in Tasks :
        BothChatTurnsDone(a, b) =>
            /\ tasks[a].session_id \in DOMAIN sessions
            /\ sessions[tasks[a].session_id]
                  \in {OneAfterTheOther(a, b), OneAfterTheOther(b, a)}

\* one turn was accepted and waiting while the other was in its handler,
\* and the stored entry carries what both turns appended
C15_Witness ==
    \E a, b \in Tasks :
        /\ BothChatTurnsDone(a, b)
        /\ tasks[b].waited
        /\ tasks[a].out.g.ok /\ tasks[b].out.g.ok
        /\ Len(sessions[tasks[a].session_id].history) = 5

\* C16: a GET or DELETE of /session/{id} for an identifier the store does
\* not hold is answered 404 and leaves the store as it was.
C16_MissingSessionIsNotFound ==
    [][\A t \in Tasks :
          (/\ tasks[t].pc = "pending"
           /\ tasks'[t].pc = "done"
           /\ tasks[t].endpoint \in {"get_session", "delete_session"}
           /\ tasks[t].session_id \notin DOMAIN sessions)
          => (tasks'[t].status = 404 /\ sessions' = sessions)]_vars

\* a session is stored, and a GET or DELETE for the other identifier has
\* been answered 404
C16_Witness ==
    \E t \in Tasks :
        /\ tasks[t].pc = "done"
        /\ tasks[t].endpoint \in {"get_session", "delete_session"}
        /\ tasks[t].status = 404
        /\ DOMAIN sessions = SessionIds \ {tasks[t].session_id}


\* the step about to run is a graph node other than the availability
\* check of a book turn
NodeOffBookCheck ==
    \/ pc = "conversational"
    \/ pc = "booking"
    \/ pc = "check_availability" /\ state.intent # "book"

\* C21: availability is written only by the availability check of a book
\* turn: Interpret, Booking and the availability check of a check turn
\* leave it as it was, a /chat turn of a stored session starts from the
\* stored value, storing the result of a turn stores the value the turn
\* ended with, and no other step changes the value stored for a session.
C21_AvailabilityWrittenOnlyByBookCheck ==
    [][/\ NodeOffBookCheck => state'.availability = state.availability
       /\ (pc = "idle" /\ pc' = "conversational" /\ req'.endpoint = "chat"
             /\ req'.session_id \in DOMAIN sessions)
          => state'.availability = sessions[req'.session_id].availability
       /\ (pc = "return" /\ req.endpoint = "chat")
          => sessions'[req.session_id].availability = state.availability
       /\ \A sid \in (DOMAIN sessions) \cap (DOMAIN sessions') :
             ~(pc = "return" /\ req.endpoint = "chat" /\ req.session_id = sid)
             => sessions'[sid].availability = sessions[sid].availability]_vars

\* Booking has run and failed, and availability is what the check found
C21_Witness ==
    /\ pc = "return"
    /\ turn.steps = ForwardPass
    /\ ~turn.insert_ok
    /\ turn.is_free = "True"
    /\ state.availability = "True"


\* C22: booking_confirmed is false in the state a new session starts from
\* (the first /chat turn of an unknown identifier, and the entry
\* /new-session stores), and it goes from false to true only in a Booking
\* step whose insert call returned; the stored value goes from false to
\* true only when the result of such a turn is stored.
C22_BookingConfirmedOnlyByInsert ==
    [][/\ (pc = "idle" /\ pc' = "conversational"
             /\ (req'.endpoint # "chat" \/ req'.session_id \notin DOMAIN sessions))
          => ~state'.booking_confirmed
       /\ \A sid \in (DOMAIN sessions') \ (DOMAIN sessions) :
             pc = "idle" => ~sessions'[sid].booking_confirmed
       /\ (pc # "idle" /\ ~state.booking_confirmed /\ state'.booking_confirmed)
          => /\ pc = "booking"
             /\ turn'.insert_ok
             /\ turn'.calls # <<>>
             /\ turn'.calls[Len(turn'.calls)].op = "insert"
       /\ \A sid \in (DOMAIN sessions) \cap (DOMAIN sessions') :
             (~sessions[sid].booking_confirmed /\ sessions'[sid].booking_confirmed)
             => (pc = "return" /\ req.session_id = sid /\ turn.insert_ok)]_vars

\* a session with two turns behind it is stored as booked
C22_Witness ==
    /\ pc = "idle"
    /\ turns = 2
    /\ \E sid \in DOMAIN sessions :
          /\ sessions[sid].booking_confirmed
          /\ Len(sessions[sid].history) >= 4


\* the identifiers the step being taken operates on: the session of the
\* request in flight, or the identifier a creation or deletion adds or removes
OperatedOn ==
    IF pc # "idle" THEN {req.session_id}
    ELSE IF pc' # "idle" THEN {req'.session_id}
    ELSE ((DOMAIN sessions) \ (DOMAIN sessions')) \cup ((DOMAIN sessions') \ (DOMAIN sessions))

\* C23: a step of a turn, a creation or a deletion for one session
\* identifier leaves the entry stored under every other identifier as it
\* was, its history and suggestions included.
C23_OtherSessionsUntouched ==
    [][/\ Cardinality(OperatedOn) <= 1
       /\ \A other \in (DOMAIN sessions) \ OperatedOn :
             /\ other \in DOMAIN sessions'
             /\ sessions'[other] = sessions[other]
       /\ \A other \in (DOMAIN sessions') \ OperatedOn : other \in DOMAIN sessions]_vars

\* two sessions are stored, each after a turn of its own, with different
\* slot states
C23_Witness ==
    /\ pc = "idle"
    /\ turns = 2
    /\ DOMAIN sessions = SessionIds
    /\ \A sid \in SessionIds : sessions[sid].has_history
    /\ \E a, b \in SessionIds :
          /\ sessions[a].suggestions # <<>>
          /\ sessions[b].suggestions = <<>>
          /\ sessions[a].history # sessions[b].history


\* the step being taken starts a /chat turn for session_id
ChatTurnStarts(session_id) ==
    /\ pc = "idle"
    /\ pc' = "conversational"
    /\ req'.endpoint = "chat"
    /\ req'.session_id = session_id

\* the step being taken stores the result of a /chat turn of session_id
ChatTurnStored(session_id) ==
    /\ pc = "return"
    /\ req.endpoint = "chat"
    /\ req.session_id = session_id

\* C24: an identifier enters the store only when the result of a /chat
\* turn for it is stored or when /new-session creates it, every /chat
\* turn leaves its identifier in the store, an identifier leaves the store
\* only by a deletion (entries do not expire), and a /chat turn for an
\* identifier that is not stored, in particular one deleted since the last
\* turn, starts from a fresh initial state: no date, start time, attendees
\* or availability, booking_confirmed false, and a history that holds
\* nothing but the message of this turn.
C24_StoreLifecycle ==
    [][\A sid \in SessionIds :
          /\ (sid \in DOMAIN sessions' /\ sid \notin DOMAIN sessions)
             => (ChatTurnStored(sid) \/ (pc = "idle" /\ pc' = "idle"))
          /\ ChatTurnStored(sid) => sid \in DOMAIN sessions'
          /\ (sid \in DOMAIN sessions /\ sid \notin DOMAIN sessions')
             => (pc = "idle" /\ pc' = "idle" /\ sid \in turn'.deleted)
          /\ (ChatTurnStarts(sid) /\ (sid \notin DOMAIN sessions \/ sid \in turn.deleted))
             => /\ state'.date = None
                /\ state'.start_time = None
                /\ state'.end_time = None
                /\ state'.attendees = <<>>
                /\ state'.availability = None
                /\ ~state'.booking_confirmed
                /\ state'.suggestions = <<>>
                /\ \A i \in 1..Len(state'.history) :
                      state'.history[i] = [role |-> "user", content |-> state'.user_message]]_vars

\* a /chat turn is in flight for an identifier deleted since the last turn,
\* and it started from an empty slot state
C24_Witness ==
    /\ pc = "conversational"
    /\ turn.after_delete
    /\ req.session_id \notin DOMAIN sessions
    /\ state.date = None
    /\ state.availability = None


\* C25: a /chat turn of a stored session keeps the calendar_id the session
\* was created with, whatever calendar_id the request carries: no step
\* changes the calendar_id stored for a session, the slot state of the
\* turn in flight has the stored calendar_id, and every backend call of
\* the turn names it.
C25_CalendarIdFixedPerSession ==
    [][/\ \A sid \in (DOMAIN sessions) \cap (DOMAIN sessions') :
             sessions'[sid].calendar_id = sessions[sid].calendar_id
       /\ (pc' # "idle" /\ req'.endpoint = "chat" /\ req'.session_id \in DOMAIN sessions')
          => /\ state'.calendar_id = sessions'[req'.session_id].calendar_id
             /\ \A i \in 1..Len(turn'.calls) :
                   turn'.calls[i].calendar_id = sessions'[req'.session_id].calendar_id]_vars

\* a turn of a session created for another calendar than the one /chat
\* requests carry has called the backend for the session's calendar
C25_Witness ==
    /\ pc = "return"
    /\ req.endpoint = "chat"
    /\ req.session_id \in DOMAIN sessions
    /\ sessions[req.session_id].calendar_id = OtherCalendar
    /\ state.calendar_id = OtherCalendar
    /\ turn.calls # <<>>
    /\ turn.calls[1].calendar_id = OtherCalendar


\* the number of entries of a history said by the user
UserEntries(h) == Cardinality({i \in 1..Len(h) : h[i].role = "user"})

\* C26: every /chat turn appends exactly one user entry, carrying its
\* message, to the history it starts from (the empty history when the
\* identifier is not stored), and the steps of the turn add no other user
\* entry.
C26_OneUserEntryPerMessage ==
    [][/\ \A sid \in SessionIds :
             ChatTurnStarts(sid) =>
                LET before == IF sid \in DOMAIN sessions
                              THEN sessions[sid].history ELSE <<>>
                IN /\ UserEntries(state'.history) = UserEntries(before) + 1
                   /\ state'.history[Len(state'.history)]
                         = [role |-> "user", content |-> state'.user_message]
       /\ (pc # "idle" /\ pc' # "idle")
          => UserEntries(state'.history) = UserEntries(state.history)]_vars


\* the starts a slot is looked for at: every quarter of an hour of the window
CandidateStarts ==
    {t \in day_start..(day_end - slot_duration_minutes) : t % 15 = 0}

\* the slot starting at t lies in the window and meets no busy interval
ConflictFree(t) ==
    /\ day_start <= t
    /\ t + slot_duration_minutes <= day_end
    /\ \A k \in 1..Len(pl_busy) :
          ~(t < pl_busy[k][2] /\ t + slot_duration_minutes > pl_busy[k][1])

\* s is the earliest conflict-free start at or after from
EarliestFrom(from, s) ==
    /\ from <= s
    /\ ConflictFree(s)
    /\ \A t \in CandidateStarts : (from <= t /\ t < s) => ~ConflictFree(t)

\* the returned slots are the greedy-earliest ones, and the list is short
\* of max_suggestions only when no conflict-free start is left
GreedyEarliest ==
    LET n == Len(pl_suggestions)
        after(i) == IF i = 0 THEN day_start
                    ELSE pl_suggestions[i] + slot_duration_minutes
    IN /\ \A i \in 1..n : EarliestFrom(after(i - 1), pl_suggestions[i])
       /\ n < max_suggestions =>
             \A t \in CandidateStarts : after(n) <= t => ~ConflictFree(t)

\* C27: suggest_free_slots terminates whatever the busy intervals are:
\* an iteration runs only while a slot still fits before the end of the
\* window, and it either accepts the slot at the cursor and moves the
\* cursor to the slot's end, or moves the cursor strictly forward to the
\* end of a busy interval the slot meets; the call ends (by returning, or
\* by the query raising), and the slots it returns are the greedy-earliest
\* ones.
C27_SlotsTerminateGreedyEarliest ==
    /\ [][(pl_pc = "loop" /\ pl_pc' = "loop") =>
             /\ pl_current + slot_duration_minutes <= day_end
             /\ pl_current < pl_current'
             /\ \/ /\ pl_suggestions' = Append(pl_suggestions, pl_current)
                   /\ pl_current' = pl_current + slot_duration_minutes
                \/ /\ pl_suggestions' = pl_suggestions
                   /\ \E k \in 1..Len(pl_busy) :
                         /\ pl_current' = pl_busy[k][2]
                         /\ pl_current < pl_busy[k][2]
                         /\ pl_current + slot_duration_minutes > pl_busy[k][1]]_vars
    /\ [](pl_pc = "done" => GreedyEarliest)
    /\ <>(pl_pc \in {"done", "raised"})

\* the call has returned after skipping to the end of a busy interval that
\* is not on the hour, so that its slots are off the grid of the hour
C27_Witness ==
    /\ pl_pc = "done"
    /\ Len(pl_busy) >= 2
    /\ Len(pl_suggestions) >= 2
    /\ \E i \in 1..Len(pl_suggestions) : pl_suggestions[i] % 60 # 0


\* C28: the date of the slot state in flight, and of every stored slot
\* state, is absent or a calendar date written YYYY-MM-DD.
C28_DateAbsentOrValid ==
    /\ state.date = None \/ strptime_Ymd_ok(state.date)
    /\ \A sid \in DOMAIN sessions :
          sessions[sid].date = None \/ strptime_Ymd_ok(sessions[sid].date)

====
